---- MODULE Spec2Model ----
(***************************************************************************)
(* A model of the dependency resolver of src/resolve.go: the registry      *)
(* built by Resolver.AddNode and the Resolve call (getOrder followed by    *)
(* createInjector).                                                        *)
(*                                                                         *)
(* A reflect.Type is a string.  A *funcNode is its address, a positive     *)
(* integer handed out when the node is first stored somewhere; the node    *)
(* list holds the records, the maps hold addresses, as in the source.      *)
(***************************************************************************)
EXTENDS Integers, Sequences, FiniteSets, TLC

\* ------------------------------------------------------------ bounds
MaxIn == 1        \* most parameters of a factory
MaxOut == 2       \* most results of a factory
MaxNodes == 2     \* AddNode is not called on a registry this large

\* ------------------------------------------------------------ universe
errorType == "error"
Types == {"int", "float32", errorType}
Names == {"A", "B", "C"}

\* The check without the exemption of the failure type.
ImplementsNothing(t) == FALSE

\* t.Implements(errorType)
Implements(t) == t = errorType

SeqsUpTo(S, n) == UNION {[1..k -> S] : k \in 0..n}

NilItem == [kind |-> "nil", in |-> <<>>, out |-> <<>>]
NonFuncItem == [kind |-> "value", in |-> <<>>, out |-> <<>>]
FuncItems ==
    {[kind |-> "func", in |-> i, out |-> o] :
        i \in SeqsUpTo(Types, MaxIn), o \in SeqsUpTo(Types, MaxOut)}
Items == {NilItem, NonFuncItem} \cup FuncItems

NoErr == "nil"

\* The error values of Resolve: kind names the return statement, types is
\* the set joined into the message, val is a value a factory returned.
ErrValue(kind, types, val) == [kind |-> kind, types |-> types, val |-> val]
NilError == ErrValue("nil", {}, <<>>)

\* ------------------------------------------------------------ state
VARIABLES
    nodes,              \* r.nodes: sequence of funcNode records
    names,              \* r.names: the set of names mapped to true
    providedBy,         \* r.providedBy: type -> node address
    nextAddr,           \* the next unused node address
    addErr,             \* what the last AddNode call returned
    pc,                 \* where the current Resolve call is
    nodeDependencies,   \* getOrder: node address -> set of node addresses
    order,              \* getOrder: the order built so far
    injector,           \* createInjector: type -> value
    idx,                \* createInjector: nodes of order already handled
    vals,               \* createInjector: what the last factory returned
    invoked,            \* the addresses handed to injector.Invoke, in order
    ret,                \* what the last Resolve call returned
    prevOrder           \* the orders getOrder returned since the last AddNode

regVars == <<nodes, names, providedBy, nextAddr>>
vars == <<nodes, names, providedBy, nextAddr, addErr, pc, nodeDependencies,
          order, injector, idx, vals, invoked, ret, prevOrder>>

Range(s) == {s[i] : i \in DOMAIN s}
Empty == [x \in {} |-> 0]
Put(f, k, v) == [x \in DOMAIN f \cup {k} |-> IF x = k THEN v ELSE f[x]]

\* ------------------------------------------------------------ registration
EnsureValidFactory(item) ==
    IF item.kind = "nil" THEN "Factory cannot be nil"
    ELSE IF item.kind # "func" THEN "Factory is not a func"
    ELSE NoErr

\* The node newFuncNode builds for a valid factory, at address a.
newFuncNode(a, name, item) ==
    [addr |-> a, name |-> name, provides |-> item.out, requires |-> item.in,
     raw |-> item]

\* The loop without its check of r.providedBy: a later producer replaces
\* an earlier one.
RECURSIVE ProvidesLoopOverwrite(_, _, _)
ProvidesLoopOverwrite(pb, n, i) ==
    IF i > Len(n.provides) THEN [ok |-> TRUE, providedBy |-> pb]
    ELSE LET t == n.provides[i] IN
         IF Implements(t) THEN ProvidesLoopOverwrite(pb, n, i + 1)
         ELSE ProvidesLoopOverwrite(Put(pb, t, n.addr), n, i + 1)

\* The loop over n.provides of AddNode, from position i on: the map it
\* leaves and whether it ran to the end.
RECURSIVE ProvidesLoop(_, _, _)
ProvidesLoop(pb, n, i) ==
    IF i > Len(n.provides) THEN [ok |-> TRUE, providedBy |-> pb]
    ELSE LET t == n.provides[i] IN
         IF Implements(t) THEN ProvidesLoop(pb, n, i + 1)
         ELSE IF t \in DOMAIN pb THEN [ok |-> FALSE, providedBy |-> pb]
         ELSE ProvidesLoop(Put(pb, t, n.addr), n, i + 1)

Idle == pc \in {"idle", "completed", "failed"}

\* A returned injector is <<store>>, a nil one is <<>>.
NoRet == [done |-> FALSE, injector |-> <<>>, err |-> NilError]
\* The return that hands out the injector whatever the error.
ReturnInjectorToo(inj, err) == [done |-> TRUE, injector |-> <<injector>>, err |-> err]

Return(inj, err) == [done |-> TRUE, injector |-> inj, err |-> err]

\* The frame of a Resolve call that has returned is gone.
ClearCall ==
    /\ pc' = "idle"
    /\ nodeDependencies' = Empty
    /\ order' = <<>>
    /\ injector' = Empty
    /\ idx' = 0
    /\ vals' = <<>>
    /\ invoked' = <<>>
    /\ ret' = NoRet

\* What AddNode(name, item) returns and the registry it leaves.
AddNodeResult(name, item) ==
    LET same(err) == [err |-> err, nodes |-> nodes, names |-> names,
                      providedBy |-> providedBy, nextAddr |-> nextAddr]
    IN
    IF name \in names THEN same("Name provided by multiple nodes")
    ELSE IF EnsureValidFactory(item) # NoErr THEN same(EnsureValidFactory(item))
    ELSE LET n == newFuncNode(nextAddr, name, item)
             l == ProvidesLoop(providedBy, n, 1)
             kept == l.ok \/ l.providedBy # providedBy
         IN  IF l.ok
             THEN [err |-> NoErr, nodes |-> Append(nodes, n),
                   names |-> names \cup {name}, providedBy |-> l.providedBy,
                   nextAddr |-> nextAddr + 1]
             ELSE [err |-> "Type provided by multiple constructors",
                   nodes |-> nodes, names |-> names,
                   providedBy |-> l.providedBy,
                   nextAddr |-> IF kept THEN nextAddr + 1 ELSE nextAddr]

AddNode(name, item) ==
    /\ Idle
    /\ Len(nodes) < MaxNodes
    /\ ClearCall
    /\ prevOrder' = {}
    /\ LET r == AddNodeResult(name, item) IN
       /\ addErr' = r.err
       /\ nodes' = r.nodes
       /\ names' = r.names
       /\ providedBy' = r.providedBy
       /\ nextAddr' = r.nextAddr

\* ------------------------------------------------------------ getOrder
\* The types the first loop of getOrder puts into missingDeps.
MissingDeps ==
    {t \in Types : \E i \in DOMAIN nodes :
        t \in Range(nodes[i].requires) /\ t \notin DOMAIN providedBy}

\* The first loop without its edges: no node waits for another.
BuildNoDependencies ==
    [a \in {nodes[i].addr : i \in DOMAIN nodes} |-> {}]

\* nodeDependencies after the first loop of getOrder.
BuildDependencies ==
    [a \in {nodes[i].addr : i \in DOMAIN nodes} |->
        LET n == CHOOSE m \in Range(nodes) : m.addr = a IN
        {providedBy[t] : t \in Range(n.requires) \cap DOMAIN providedBy}]

\* Resolve up to the end of the first loop of getOrder and its check of
\* missingDeps.
Resolve ==
    /\ Idle
    /\ order' = <<>>
    /\ injector' = Empty
    /\ idx' = 0
    /\ vals' = <<>>
    /\ invoked' = <<>>
    /\ IF MissingDeps # {}
       THEN /\ pc' = "failed"
            /\ nodeDependencies' = Empty
            /\ ret' = Return(<<>>, ErrValue("Missing dependencies", MissingDeps, <<>>))
       ELSE /\ pc' = "ordering"
            /\ nodeDependencies' = BuildDependencies
            /\ ret' = NoRet
    /\ UNCHANGED <<regVars, addErr, prevOrder>>

\* The sequences that list every element of S once: the orders in which a
\* range over a map can visit its keys.
Perms(S) ==
    {s \in [1..Cardinality(S) -> S] : \A x \in S : \E i \in DOMAIN s : s[i] = x}

\* Every remaining node counts as ready.
ReadyAll(deps) == DOMAIN deps

Ready(deps) == {a \in DOMAIN deps : deps[a] = {}}

\* One iteration of the loop "for len(nodeDependencies) > 0".
OrderRound ==
    /\ pc = "ordering"
    /\ DOMAIN nodeDependencies # {}
    /\ IF Ready(nodeDependencies) = {}
       THEN /\ pc' = "failed"
            /\ ret' = Return(<<>>, ErrValue("Circular dependency found", {}, <<>>))
            /\ nodeDependencies' = Empty
            /\ order' = <<>>
       ELSE \E ready \in Perms(Ready(nodeDependencies)) :
            /\ order' = order \o ready
            /\ nodeDependencies' =
                 [a \in DOMAIN nodeDependencies \ Range(ready) |->
                     nodeDependencies[a] \ Range(ready)]
            /\ UNCHANGED <<pc, ret>>
    /\ UNCHANGED <<regVars, addErr, injector, idx, vals, invoked, prevOrder>>

\* getOrder returns order; createInjector makes the injector.
OrderDone ==
    /\ pc = "ordering"
    /\ DOMAIN nodeDependencies = {}
    /\ pc' = "executing"
    /\ injector' = Empty
    /\ idx' = 0
    /\ prevOrder' = prevOrder \cup {order}
    /\ UNCHANGED <<regVars, addErr, nodeDependencies, order, vals, invoked, ret>>

\* ------------------------------------------------------------ createInjector
NilValue == <<"nil">>
Value(n, i) == <<n.name, i>>

NodeAt(a) == CHOOSE n \in Range(nodes) : n.addr = a

\* injector.Get(t) finds a value: one stored for t or, t being an
\* interface, one stored for a type that implements it.
Found(inj, t) ==
    \/ t \in DOMAIN inj
    \/ t = errorType /\ \E k \in DOMAIN inj : Implements(k)

\* The loop without its return on a non-nil error.
RECURSIVE ValsLoopNoStop(_, _, _, _)
ValsLoopNoStop(inj, n, vs, i) ==
    IF i > Len(vs) THEN [err |-> NilError, injector |-> inj]
    ELSE ValsLoopNoStop(Put(inj, n.provides[i], vs[i]), n, vs, i + 1)

\* The loop without injector.Set.
RECURSIVE ValsLoopNoSet(_, _, _, _)
ValsLoopNoSet(inj, n, vs, i) ==
    IF i > Len(vs) THEN [err |-> NilError, injector |-> inj]
    ELSE IF Implements(n.provides[i]) /\ vs[i] # NilValue
         THEN [err |-> ErrValue("factory", {}, vs[i]), injector |-> inj]
         ELSE ValsLoopNoSet(inj, n, vs, i + 1)

\* The loop over vals of createInjector, from position i on.
RECURSIVE ValsLoop(_, _, _, _)
ValsLoop(inj, n, vs, i) ==
    IF i > Len(vs) THEN [err |-> NilError, injector |-> inj]
    ELSE IF Implements(n.provides[i]) /\ vs[i] # NilValue
         THEN [err |-> ErrValue("factory", {}, vs[i]), injector |-> inj]
         ELSE ValsLoop(Put(inj, n.provides[i], vs[i]), n, vs, i + 1)

ErrorOuts(n) == {i \in DOMAIN n.provides : Implements(n.provides[i])}

\* What the factory of n returns when the outputs at positions F are
\* non-nil errors.
Call(n, F) ==
    [i \in DOMAIN n.provides |->
        IF i \in ErrorOuts(n) /\ i \notin F THEN NilValue ELSE Value(n, i)]

\* One iteration of the loop over order.
InvokeNode ==
    /\ pc = "executing"
    /\ idx < Len(order)
    /\ LET n == NodeAt(order[idx + 1]) IN
       /\ invoked' = Append(invoked, n.addr)
       /\ idx' = idx + 1
       /\ IF \E i \in DOMAIN n.raw.in : ~Found(injector, n.raw.in[i])
          THEN /\ pc' = "failed"
               /\ ret' = Return(<<>>, ErrValue("Value not found", {}, <<>>))
               /\ vals' = <<>>
               /\ UNCHANGED injector
          ELSE \E F \in SUBSET ErrorOuts(n) :
               LET l == ValsLoop(injector, n, Call(n, F), 1) IN
               /\ vals' = Call(n, F)
               /\ injector' = l.injector
               /\ IF l.err # NilError
                  THEN pc' = "failed" /\ ret' = Return(<<>>, l.err)
                  ELSE UNCHANGED <<pc, ret>>
    /\ UNCHANGED <<regVars, addErr, nodeDependencies, order, prevOrder>>

\* The loop over order is over: return injector, nil.
ReturnInjector ==
    /\ pc = "executing"
    /\ idx = Len(order)
    /\ pc' = "completed"
    /\ ret' = Return(<<injector>>, NilError)
    /\ UNCHANGED <<regVars, addErr, nodeDependencies, order, injector, idx,
                   vals, invoked, prevOrder>>

Init ==
    /\ nodes = <<>>
    /\ names = {}
    /\ providedBy = Empty
    /\ nextAddr = 1
    /\ addErr = NoErr
    /\ pc = "idle"
    /\ nodeDependencies = Empty
    /\ order = <<>>
    /\ injector = Empty
    /\ idx = 0
    /\ vals = <<>>
    /\ invoked = <<>>
    /\ ret = NoRet
    /\ prevOrder = {}

Next ==
    \/ \E name \in Names, item \in Items : AddNode(name, item)
    \/ Resolve
    \/ OrderRound
    \/ OrderDone
    \/ InvokeNode
    \/ ReturnInjector

Spec == Init /\ [][Next]_vars

\* ------------------------------------------------------------ vocabulary
ErrDuplicateName == "Name provided by multiple nodes"
ErrDuplicateProducer == "Type provided by multiple constructors"

AnyAddNode == \E nm \in Names, it \in Items : AddNode(nm, it)

Addrs == {nodes[i].addr : i \in DOMAIN nodes}

\* The non-failure types a descriptor provides.
Produces(n) == {t \in Range(n.provides) : ~Implements(t)}

\* The registered descriptors that produce t.
Producers(t) == {i \in DOMAIN nodes : t \in Produces(nodes[i])}

\* ------------------------------------------------------------ C1
\* C1: every AddNode call that returns an error leaves the descriptor list,
\* the name set and the type-to-producer map as they were.
C1_RejectedAddNodeChangesNothing ==
    [][(AnyAddNode /\ addErr' # NoErr) =>
          (nodes' = nodes /\ names' = names /\ providedBy' = providedBy)]_vars

\* ------------------------------------------------------------ C2
\* C2: the type-to-producer map is exactly the index of the registered
\* descriptors: providedBy[t] = d iff d is registered, t is a non-failure
\* type and t is in d.provides.
C2_ProvidedByIsIndex ==
    \A t \in Types, a \in 1..nextAddr :
        (t \in DOMAIN providedBy /\ providedBy[t] = a)
        <=> (\E i \in DOMAIN nodes : nodes[i].addr = a /\ t \in Produces(nodes[i]))

\* ------------------------------------------------------------ C3
C3_Disjoint ==
    \A i, j \in DOMAIN nodes :
        i # j => Produces(nodes[i]) \cap Produces(nodes[j]) = {}

C3_Rejected ==
    \A nm \in Names, it \in FuncItems :
        (\E t \in Range(it.out) : Producers(t) # {})
        => LET r == AddNodeResult(nm, it) IN
           /\ r.err \in {ErrDuplicateName, ErrDuplicateProducer}
           /\ (nm \notin names => r.err = ErrDuplicateProducer)
           /\ r.nodes = nodes

\* C3: AddNode of a factory providing a non-failure type that a registered
\* descriptor already provides is rejected (with DuplicateProducer when the
\* name is free), and any two distinct registered descriptors provide
\* disjoint sets of non-failure types.
C3_DuplicateProducerRejected ==
    C3_Disjoint /\ (pc = "idle" => C3_Rejected)

\* A rejection for a duplicate producer in a registry that holds a producer
\* and nothing a rejected call left behind.
C3_Witness ==
    /\ addErr = ErrDuplicateProducer
    /\ \E i \in DOMAIN nodes : Produces(nodes[i]) # {}
    /\ nextAddr = Len(nodes) + 1

\* ------------------------------------------------------------ C4
\* A factory that conflicts with nothing but for the failure type: its name
\* is free, its non-failure outputs are pairwise distinct and none of them
\* is a key of the map.
C4_NoOtherConflict(nm, it) ==
    /\ nm \notin names
    /\ errorType \in Range(it.out)
    /\ \A i, j \in DOMAIN it.out :
          (i # j /\ it.out[i] = it.out[j]) => Implements(it.out[i])
    /\ \A t \in Range(it.out) : Implements(t) \/ t \notin DOMAIN providedBy

C4_Accepted ==
    \A nm \in Names, it \in FuncItems :
        C4_NoOtherConflict(nm, it)
        => LET r == AddNodeResult(nm, it) IN
           /\ r.err = NoErr
           /\ r.nodes = Append(nodes, newFuncNode(nextAddr, nm, it))

\* C4: a factory that produces the failure type and has no other conflict
\* is registered however many registered factories produce the failure
\* type, and the failure type is never a key of the type-to-producer map.
C4_FailureTypeExempt ==
    errorType \notin DOMAIN providedBy /\ (pc = "idle" => C4_Accepted)

\* Two registered descriptors produce the failure type, the second one the
\* latest accepted.
C4_Witness ==
    /\ addErr = NoErr
    /\ Len(nodes) >= 2
    /\ \A i \in DOMAIN nodes : errorType \in Range(nodes[i].provides)

\* ------------------------------------------------------------ dependency relation
ErrMissing == "Missing dependencies"
ErrCircular == "Circular dependency found"
ErrFactory == "factory"

\* Descriptor i requires a type that descriptor j produces.
DependsOn(i, j) == Range(nodes[i].requires) \cap Produces(nodes[j]) # {}

RECURSIVE Closure(_, _)
Closure(S, k) ==
    IF k = 0 THEN S
    ELSE Closure(S \cup {j \in DOMAIN nodes : \E i \in S : DependsOn(i, j)}, k - 1)

\* The descriptors that must run before descriptor i.
Prerequisites(i) == Closure({j \in DOMAIN nodes : DependsOn(i, j)}, Len(nodes))

Cyclic == \E i \in DOMAIN nodes : i \in Prerequisites(i)

\* The required types that no registered descriptor produces.
Unproduced ==
    {t \in Types : /\ \E i \in DOMAIN nodes : t \in Range(nodes[i].requires)
                   /\ Producers(t) = {}}

\* getOrder has returned an order and no error.
GetOrderReturned ==
    \/ pc \in {"executing", "completed"}
    \/ pc = "failed" /\ ret.err.kind \notin {ErrMissing, ErrCircular}

Pos(a) == CHOOSE k \in DOMAIN order : order[k] = a

Last(s) == s[Len(s)]

\* ------------------------------------------------------------ C5
C5_Pre == Unproduced = {} /\ ~Cyclic

C5_ValidOrder ==
    /\ Len(order) = Len(nodes)
    /\ Range(order) = Addrs
    /\ \A i, j \in DOMAIN nodes :
          DependsOn(i, j) => Pos(nodes[j].addr) < Pos(nodes[i].addr)

\* C5: when every required type has a producer and the dependency relation
\* is acyclic, getOrder returns no error and its order lists every
\* registered descriptor exactly once, each producer before the
\* descriptors that require its types.
C5_TopologicalOrder ==
    C5_Pre => /\ ret.err.kind \notin {ErrMissing, ErrCircular}
              /\ GetOrderReturned => C5_ValidOrder

\* getOrder has ordered a registry in which a descriptor depends on another.
C5_Witness ==
    /\ pc = "executing"
    /\ C5_Pre
    /\ \E i, j \in DOMAIN nodes : DependsOn(i, j)

\* ------------------------------------------------------------ C6
\* C6: when a required type has no producer, Resolve fails with
\* MissingDependencies carrying exactly the required types without a
\* producer, and invokes no factory.
C6_MissingReported ==
    (pc # "idle" /\ Unproduced # {})
    => /\ pc = "failed"
       /\ ret = Return(<<>>, ErrValue(ErrMissing, Unproduced, <<>>))
       /\ invoked = <<>>

\* ------------------------------------------------------------ C7
\* C7: when every required type has a producer and the dependency relation
\* has a cycle, Resolve invokes no factory and fails with
\* CircularDependency.
C7_CycleReported ==
    (pc # "idle" /\ Unproduced = {} /\ Cyclic)
    => /\ invoked = <<>>
       /\ pc \in {"ordering", "failed"}
       /\ pc = "failed" => ret = Return(<<>>, ErrValue(ErrCircular, {}, <<>>))

\* Resolve has failed on a cycle in a registry that also holds a descriptor
\* outside every cycle, one that requires nothing.
C7_Witness ==
    /\ pc = "failed"
    /\ ret.err.kind = ErrCircular
    /\ Unproduced = {} /\ Cyclic
    /\ \E i \in DOMAIN nodes : nodes[i].requires = <<>>

\* ------------------------------------------------------------ C8
\* The positions at which the factory invoked last returned a non-nil error.
Failures ==
    IF invoked = <<>> THEN {}
    ELSE {i \in DOMAIN vals :
            Implements(NodeAt(Last(invoked)).provides[i]) /\ vals[i] # NilValue}

Min(S) == CHOOSE x \in S : \A y \in S : x <= y

C8_State ==
    Failures # {}
    => /\ pc = "failed"
       /\ ret = Return(<<>>, ErrValue(ErrFactory, {}, vals[Min(Failures)]))
       /\ invoked = SubSeq(order, 1, idx)
       /\ \A k \in (idx + 1)..Len(order) : order[k] \notin Range(invoked)

C8_Step == pc = "failed" => invoked' \in {invoked, <<>>}

\* C8: once a factory has returned a non-nil failure value, Resolve has
\* failed with exactly that value (the first one the factory returned), no
\* descriptor ordered after that factory has been invoked, and none is
\* invoked later in the call.
C8_FirstFailureStops == []C8_State /\ [][C8_Step]_vars

\* A factory has failed while a descriptor ordered after it remains.
C8_Witness ==
    /\ pc = "failed"
    /\ Failures # {}
    /\ idx < Len(order)

\* ------------------------------------------------------------ C9
\* C9: when Resolve succeeds the factories invoked are the registered ones,
\* each once, in the computed order, and the returned store has an entry
\* for every non-failure type a registered descriptor provides.
C9_SuccessRunsAll ==
    pc = "completed"
    => /\ invoked = order
       /\ Len(invoked) = Len(nodes)
       /\ Range(invoked) = Addrs
       /\ ret.done /\ ret.err = NilError /\ Len(ret.injector) = 1
       /\ \A i \in DOMAIN nodes : \A k \in DOMAIN nodes[i].provides :
             ~Implements(nodes[i].provides[k])
             => /\ nodes[i].provides[k] \in DOMAIN ret.injector[1]
                /\ ret.injector[1][nodes[i].provides[k]] = Value(nodes[i], k)

\* Resolve has succeeded on two descriptors, one depending on the other and
\* one returning a nil error.
C9_Witness ==
    /\ pc = "completed"
    /\ Len(nodes) >= 2
    /\ \E i, j \in DOMAIN nodes : DependsOn(i, j)
    /\ \E i \in DOMAIN nodes : errorType \in Range(nodes[i].provides)

\* ------------------------------------------------------------ C10
\* C10: the Resolve calls made on an unmodified registry all compute the
\* same execution order.
C10_SameOrder == Cardinality(prevOrder) <= 1

\* ------------------------------------------------------------ C11
\* C11: a Resolve call that has returned has returned either a value store
\* and no error or an error and no value store; the store filled before a
\* failure is not returned.
C11_StoreOrError ==
    /\ pc \in {"completed", "failed"} <=> ret.done
    /\ pc = "completed" => Len(ret.injector) = 1 /\ ret.err = NilError
    /\ pc = "failed" => ret.injector = <<>> /\ ret.err # NilError

\* Resolve has failed on a factory's error with values already stored.
C11_Witness ==
    /\ pc = "failed"
    /\ ret.err.kind = ErrFactory
    /\ \E t \in DOMAIN injector : ~Implements(t)
====
